---- MODULE Spec2Model ----
(***************************************************************************)
(* A model of the article simplifier: the readability analyzer             *)
(* (TextAnalyzer), the Vocabulary, the SentenceRewriter and the Simplifier *)
(* pipeline.                                                               *)
(*                                                                         *)
(* A std::string is a sequence of one-character strings, so "the" is       *)
(* <<"t","h","e">>.  A double is an exact fraction <<num, den>> with       *)
(* den > 0; rounding of doubles is not modelled.                           *)
(***************************************************************************)
EXTENDS Integers, Sequences, FiniteSets, TLC

VARIABLES
  pc,           \* position of the call being modelled
  arg,          \* argument of the call: a word, a text, a sentence, chunks
  lvl_,         \* the CEFRLevel of the Vocabulary / SentenceRewriter / Simplifier
  ret,          \* value returned by the call ("none" before it returns)
  progressFn_,  \* Simplifier::progressFn_ is set
  sentences,    \* Simplifier::run: local sentences
  i,            \* Simplifier::run: loop index
  result,       \* Simplifier::run: local result (flat chunk sequence)
  calls         \* the (done, total) pairs the progress callback has received

vars == <<pc, arg, lvl_, ret, progressFn_, sentences, i, result, calls>>

(***************************************************************************)
(* Characters and <cctype>                                                 *)
(***************************************************************************)
LowerLetters == <<"a","b","c","d","e","f","g","h","i","j","k","l","m","n","o","p","q","r","s","t","u","v","w","x","y","z">>

UpperLetters == <<"A","B","C","D","E","F","G","H","I","J","K","L","M","N","O","P","Q","R","S","T","U","V","W","X","Y","Z">>

Range(f) == {f[x] : x \in DOMAIN f}

isalpha(c) == c \in Range(LowerLetters) \cup Range(UpperLetters)

\* the C locale's isspace, which operator>> skips (\v is in no text drawn here)
isspace(c) == c \in {" ", "\t", "\n", "\r", "\f"}

\* the C locale's ispunct (the backquote, which no text drawn here holds, left out)
ispunct(c) ==
  c \in {"!", "\"", "#", "$", "%", "&", "'", "(", ")", "*", "+", ",", "-", ".", "/", ":",
         ";", "<", "=", ">", "?", "@", "[", "\\", "]", "^", "_", "{", "|", "}", "~"}

tolowerChar(c) ==
  IF c \in Range(UpperLetters)
  THEN LowerLetters[CHOOSE u \in DOMAIN UpperLetters : UpperLetters[u] = c]
  ELSE c

toupperChar(c) ==
  IF c \in Range(LowerLetters)
  THEN UpperLetters[CHOOSE l \in DOMAIN LowerLetters : LowerLetters[l] = c]
  ELSE c

\* std::transform(w.begin(), w.end(), w.begin(), ::tolower)
tolower(w) == [ci \in DOMAIN w |-> tolowerChar(w[ci])]

isTerminator(c) == c \in {".", "!", "?"}

max(a, b) == IF a >= b THEN a ELSE b

\* where a left-to-right scan stops: the least of the indices hits, 0 when
\* there is none
firstOf(hits) ==
  IF hits = {} THEN 0 ELSE CHOOSE x \in hits : \A y \in hits : x <= y

\* the tokens `while (ss >> tok)` reads from an istringstream over s: skip the
\* white space, read up to the next white space, go on with the rest
RECURSIVE readTokens(_)
readTokens(s) ==
  LET begin == firstOf({x \in 1..Len(s) : ~isspace(s[x])})
      stop  == firstOf({x \in (begin + 1)..Len(s) : isspace(s[x])})
  IN  IF begin = 0 THEN <<>>
      ELSE IF stop = 0 THEN <<SubSeq(s, begin, Len(s))>>
      ELSE <<SubSeq(s, begin, stop - 1)>> \o readTokens(SubSeq(s, stop, Len(s)))

istringstream(s) == readTokens(s)

(***************************************************************************)
(* TextAnalyzer                                                            *)
(***************************************************************************)
vowels == Range(<<"a","e","i","o","u","y">>)

countSyllables_noClamp(rawWord) ==
  LET word == tolower(rawWord)
      RECURSIVE scan(_, _, _)
      scan(j, n, lastWasVowel) ==
        IF j > Len(word) THEN n
        ELSE LET v == word[j] \in vowels
             IN  scan(j + 1, IF v /\ ~lastWasVowel THEN n + 1 ELSE n, v)
      n0 == scan(1, 0, FALSE)
  IN  IF Len(word) > 2 /\ word[Len(word)] = "e" THEN n0 - 1 ELSE n0

countSyllables(rawWord) ==
  LET word == tolower(rawWord)
      RECURSIVE scan(_, _, _)
      scan(j, n, lastWasVowel) ==
        IF j > Len(word) THEN n
        ELSE LET v == word[j] \in vowels
             IN  scan(j + 1, IF v /\ ~lastWasVowel THEN n + 1 ELSE n, v)
      n0 == scan(1, 0, FALSE)
      n1 == IF Len(word) > 2 /\ word[Len(word)] = "e" THEN n0 - 1 ELSE n0
  IN  max(1, n1)

\* 206.835 - (1.015 * wps) - (84.6 * spw), on fractions, in thousandths
calcFlesch(wps, spw) ==
  << 206835 * wps[2] * spw[2] - 1015 * wps[1] * spw[2] - 84600 * spw[1] * wps[2],
     1000 * wps[2] * spw[2] >>

\* f >= k for a fraction f and an integer k
GE(f, k) == f[1] >= k * f[2]

\* a default-constructed Metrics (the struct is declared in the header)
Metrics0 ==
  [avgWordsPerSentence |-> <<0, 1>>, avgSyllablesPerWord |-> <<0, 1>>,
   fleschScore |-> <<0, 1>>, cefrEstimate |-> 0]

\* the sentences analyze() collects: closed at '.', '!' or '?', the rest dropped
RECURSIVE analyzeSentences(_)
analyzeSentences(text) ==
  LET close == firstOf({x \in 1..Len(text) : isTerminator(text[x])})
  IN  IF close = 0 THEN <<>>
      ELSE <<SubSeq(text, 1, close)>>
             \o analyzeSentences(SubSeq(text, close + 1, Len(text)))

\* tok.erase(remove_if(..., !isalpha)), then `if (tok.empty()) continue`
sentenceWords(sent) ==
  SelectSeq([ti \in DOMAIN istringstream(sent) |->
               SelectSeq(istringstream(sent)[ti], isalpha)],
            LAMBDA w : w # <<>>)

RECURSIVE sumSyllables(_)
sumSyllables(ws) ==
  IF ws = <<>> THEN 0 ELSE countSyllables(Head(ws)) + sumSyllables(Tail(ws))

\* the `for (auto& sent : sentences)` loop: <<totalWords, totalSyllables>>
RECURSIVE countWords(_)
countWords(sents) ==
  IF sents = <<>> THEN <<0, 0>>
  ELSE LET ws   == sentenceWords(Head(sents))
           rest == countWords(Tail(sents))
       IN  <<Len(ws) + rest[1], sumSyllables(ws) + rest[2]>>

cefrEstimate_strict(f) ==
  IF      f[1] > 80 * f[2] THEN 1
  ELSE IF f[1] > 65 * f[2] THEN 2
  ELSE IF f[1] > 50 * f[2] THEN 3
  ELSE IF f[1] > 40 * f[2] THEN 4
  ELSE IF f[1] > 25 * f[2] THEN 5
  ELSE                          6

cefrEstimate(f) ==
  IF      GE(f, 80) THEN 1
  ELSE IF GE(f, 65) THEN 2
  ELSE IF GE(f, 50) THEN 3
  ELSE IF GE(f, 40) THEN 4
  ELSE IF GE(f, 25) THEN 5
  ELSE                   6

\* the metrics analyze() computes once it has found the sentences sents
computeMetrics(sents) ==
  LET totalWords     == countWords(sents)[1]
      totalSyllables == countWords(sents)[2]
      wps == <<totalWords, Len(sents)>>
      spw == IF totalWords > 0 THEN <<totalSyllables, totalWords>> ELSE <<0, 1>>
      f   == calcFlesch(wps, spw)
  IN  [avgWordsPerSentence |-> wps, avgSyllablesPerWord |-> spw,
       fleschScore |-> f, cefrEstimate |-> cefrEstimate(f)]

\* analyze without `if (sentences.empty()) return m;`
analyze_noEarlyReturn(text) == computeMetrics(analyzeSentences(text))

analyze(text) ==
  LET sents == analyzeSentences(text)
  IN  IF sents = <<>> THEN Metrics0 ELSE computeMetrics(sents)

(***************************************************************************)
(* Vocabulary                                                              *)
(***************************************************************************)
CEFRLevel == {"A1", "A2"}

\* wordMap_[k] = v
Put(m, k, v) == (k :> v) @@ m

loadA1 ==
  (<<"u","t","i","l","i","z","e">> :> <<"u","s","e">>) @@ (<<"c","o","m","m","e","n","c","e">> :> <<"s","t","a","r","t">>) @@ (<<"t","e","r","m","i","n","a","t","e">> :> <<"e","n","d">>) @@
  (<<"r","e","s","i","d","e","n","c","e">> :> <<"h","o","m","e">>) @@ (<<"p","u","r","c","h","a","s","e">> :> <<"b","u","y">>) @@ (<<"i","n","q","u","i","r","e">> :> <<"a","s","k">>) @@
  (<<"o","b","s","e","r","v","e">> :> <<"s","e","e">>) @@ (<<"o","b","t","a","i","n">> :> <<"g","e","t">>) @@ (<<"a","s","s","i","s","t","a","n","c","e">> :> <<"h","e","l","p">>) @@
  (<<"d","e","m","o","n","s","t","r","a","t","e">> :> <<"s","h","o","w">>) @@ (<<"a","p","p","r","o","x","i","m","a","t","e","l","y">> :> <<"a","b","o","u","t">>) @@
  (<<"s","u","f","f","i","c","i","e","n","t">> :> <<"e","n","o","u","g","h">>) @@ (<<"h","o","w","e","v","e","r">> :> <<"b","u","t">>) @@ (<<"t","h","e","r","e","f","o","r","e">> :> <<"s","o">>) @@
  (<<"a","d","d","i","t","i","o","n","a","l","l","y">> :> <<"a","l","s","o">>) @@ (<<"a","t","t","e","m","p","t">> :> <<"t","r","y">>) @@ (<<"r","e","q","u","i","r","e">> :> <<"n","e","e","d">>)

loadA2 ==
  Put(Put(Put(Put(Put(loadA1,
    <<"f","a","c","i","l","i","t","a","t","e">>, <<"h","e","l","p">>), <<"c","o","n","s","t","r","u","c","t">>, <<"b","u","i","l","d">>), <<"c","o","m","p","l","e","t","e">>, <<"f","i","n","i","s","h">>),
    <<"n","u","m","e","r","o","u","s">>, <<"m","a","n","y">>), <<"p","r","e","v","i","o","u","s","l","y">>, <<"b","e","f","o","r","e">>)

\* Vocabulary::Vocabulary(lvl): the wordMap_ it leaves
wordMap_(lvl) == IF lvl = "A1" THEN loadA1 ELSE loadA2

isSimple(lvl, word) == tolower(word) \notin DOMAIN wordMap_(lvl)

getSimplerWord_lower(lvl, word) ==
  LET lower == tolower(word)
  IN  IF lower \in DOMAIN wordMap_(lvl) THEN wordMap_(lvl)[lower] ELSE lower

getSimplerWord(lvl, word) ==
  LET lower == tolower(word)
  IN  IF lower \in DOMAIN wordMap_(lvl) THEN wordMap_(lvl)[lower] ELSE word

(***************************************************************************)
(* SentenceRewriter                                                        *)
(***************************************************************************)
\* how many characters the `while (... ispunct(tok.back()))` loop pops
trailingPunct(tok) ==
  LET word == {x \in DOMAIN tok : ~ispunct(tok[x])}
  IN  IF word = {} THEN Len(tok)
      ELSE Len(tok) - (CHOOSE x \in word : \A y \in word : y <= x)

\* one pass of the loop body: getSimplerWord(tok) + punct + " "
swapToken(lvl, tok) ==
  LET np    == trailingPunct(tok)
      word  == SubSeq(tok, 1, Len(tok) - np)
      punct == SubSeq(tok, Len(tok) - np + 1, Len(tok))
  IN  getSimplerWord(lvl, word) \o punct \o <<" ">>

\* the `while (ss >> tok)` loop of swapWords: what it leaves in out
RECURSIVE swapLoop(_, _)
swapLoop(lvl, toks) ==
  IF toks = <<>> THEN <<>>
  ELSE swapToken(lvl, Head(toks)) \o swapLoop(lvl, Tail(toks))

swapWords(lvl, s) ==
  LET out == swapLoop(lvl, istringstream(s))
  IN  IF out # <<>> THEN SubSeq(out, 1, Len(out) - 1) ELSE out

limitOf(lvl) == IF lvl = "A1" THEN 10 ELSE 15

isConjunction(lw) == lw \in {<<"a","n","d">>, <<"b","u","t">>, <<"b","e","c","a","u","s","e">>}

\* the chunk loop without `if (!chunk.empty())` before the last push_back
RECURSIVE splitLoop_alwaysPush(_, _, _, _, _, _)
splitLoop_alwaysPush(words, limit, n, chunk, count, chunks) ==
  IF n > Len(words)
  THEN Append(chunks, chunk)
  ELSE LET w      == words[n]
           chunk1 == chunk \o w \o <<" ">>
           count1 == count + 1
       IN  IF isConjunction(tolower(w)) /\ count1 >= limit \div 2
           THEN splitLoop_alwaysPush(words, limit, n + 1, <<>>, 0, Append(chunks, chunk1))
           ELSE splitLoop_alwaysPush(words, limit, n + 1, chunk1, count1, chunks)

\* the chunk loop of trySplit, from word n on
RECURSIVE splitLoop(_, _, _, _, _, _)
splitLoop(words, limit, n, chunk, count, chunks) ==
  IF n > Len(words)
  THEN (IF chunk # <<>> THEN Append(chunks, chunk) ELSE chunks)
  ELSE LET w      == words[n]
           chunk1 == chunk \o w \o <<" ">>
           count1 == count + 1
       IN  IF isConjunction(tolower(w)) /\ count1 >= limit \div 2
           THEN splitLoop(words, limit, n + 1, <<>>, 0, Append(chunks, chunk1))
           ELSE splitLoop(words, limit, n + 1, chunk1, count1, chunks)

\* trySplit with `words.size() < limit` for `<=`
trySplit_lt(lvl, s) ==
  LET limit == limitOf(lvl)
      words == istringstream(s)
  IN  IF Len(words) < limit
      THEN <<s>>
      ELSE splitLoop(words, limit, 1, <<>>, 0, <<>>)

trySplit(lvl, s) ==
  LET limit == limitOf(lvl)
      words == istringstream(s)
  IN  IF Len(words) <= limit
      THEN <<s>>
      ELSE splitLoop(words, limit, 1, <<>>, 0, <<>>)

\* index of the first c in s at or after from, 0 when there is none
find(s, c, from) == firstOf({x \in from..Len(s) : s[x] = c})

\* regex_replace(s, regex(R"(\([^)]*\))"), ""): each leftmost "(" up to the next ")"
RECURSIVE removeParenSpans(_)
removeParenSpans(s) ==
  LET open  == find(s, "(", 1)
      close == IF open = 0 THEN 0 ELSE find(s, ")", open + 1)
  IN  IF close = 0 THEN s
      ELSE SubSeq(s, 1, open - 1) \o removeParenSpans(SubSeq(s, close + 1, Len(s)))

stripParens(lvl, s) == IF lvl # "A1" THEN s ELSE removeParenSpans(s)

fixPassive(s) == s

rewrite(lvl, sentence) ==
  trySplit(lvl, fixPassive(swapWords(lvl, stripParens(lvl, sentence))))

(***************************************************************************)
(* Simplifier                                                              *)
(***************************************************************************)
\* the sentences closed at '.', '!' or '?', then the non-empty rest
RECURSIVE scanSentences(_)
scanSentences(text) ==
  LET close == firstOf({x \in 1..Len(text) : isTerminator(text[x])})
  IN  IF close = 0 THEN (IF text # <<>> THEN <<text>> ELSE <<>>)
      ELSE <<SubSeq(text, 1, close)>>
             \o scanSentences(SubSeq(text, close + 1, Len(text)))

splitSentences(text) == scanSentences(text)

\* s.find_first_not_of(" \t\n"), 0 for npos
findFirstNotBlank(s, pos) ==
  firstOf({x \in pos..Len(s) : s[x] \notin {" ", "\t", "\n"}})

\* rejoin's loop body without `s[0] = std::toupper(s[0])`
rejoinPart_noUpper(p) ==
  LET start == findFirstNotBlank(p, 1)
      s     == IF start # 0 THEN SubSeq(p, start, Len(p)) ELSE p
  IN  IF s = <<>> THEN <<>>
      ELSE (IF ~isTerminator(s[Len(s)]) THEN Append(s, ".") ELSE s) \o <<" ">>

\* what one pass of rejoin's loop adds to out
rejoinPart(p) ==
  LET start == findFirstNotBlank(p, 1)
      s     == IF start # 0 THEN SubSeq(p, start, Len(p)) ELSE p
  IN  IF s = <<>> THEN <<>>
      ELSE LET s1 == [s EXCEPT ![1] = toupperChar(s[1])]
               s2 == IF ~isTerminator(s1[Len(s1)]) THEN Append(s1, ".") ELSE s1
           IN  s2 \o <<" ">>

RECURSIVE rejoin(_)
rejoin(parts) ==
  IF parts = <<>> THEN <<>> ELSE rejoinPart(Head(parts)) \o rejoin(Tail(parts))

\* progressFn_(i, total) for progressFn_(i + 1, total)
progressArgs_noIncrement(idx, total) == <<idx, total>>

\* the arguments of progressFn_(i + 1, total)
progressArgs(idx, total) == <<idx + 1, total>>

(***************************************************************************)
(* Inputs                                                                  *)
(***************************************************************************)
MaxWordLen == 4

MaxPieces == 3

MaxDelta == 2

MaxRun == 6

MaxChunks == 2

MaxSentences == 2

RECURSIVE Concat(_)
Concat(ps) == IF ps = <<>> THEN <<>> ELSE Head(ps) \o Concat(Tail(ps))

\* every concatenation of at most n pieces
TextsOf(pieces, n) == {Concat(ps) : ps \in UNION {[1..m -> pieces] : m \in 0..n}}

RECURSIVE Repeat(_, _)
Repeat(w, n) == IF n = 0 THEN <<>> ELSE <<w>> \o Repeat(w, n - 1)

\* the tokens joined by sep
RECURSIVE Join(_, _)
Join(toks, sep) ==
  IF toks = <<>> THEN <<>>
  ELSE IF Len(toks) = 1 THEN toks[1]
  ELSE Head(toks) \o sep \o Join(Tail(toks), sep)

SyllableWords ==
  UNION {[1..m -> {"a", "e", "y", "b", "E"}] : m \in 0..MaxWordLen}
    \cup {<<"b","a","n","a","n","a">>, <<"t","h","e">>, <<"T","H","E">>, <<"h","o","p","e">>}

AnalyzeTexts == TextsOf({<<"c","a","t">>, <<"t","h","e"," ">>, <<"b","a","n","a","n","a">>, <<".">>, <<"?">>, <<" ">>, <<"7">>}, MaxPieces)

\* fleschScore values around each cutoff, in thousandths
Scores ==
  {<<t * 1000 + d, 1000>> : t \in {25, 40, 50, 65, 80}, d \in (0 - MaxDelta)..MaxDelta}

toupper(w) == [ci \in DOMAIN w |-> toupperChar(w[ci])]

capitalize(w) == IF w = <<>> THEN w ELSE [w EXCEPT ![1] = toupperChar(w[1])]

VocabWords ==
  UNION {{key, toupper(key), capitalize(key), loadA2[key]} : key \in DOMAIN loadA2}
    \cup {<<"x","y","z">>, <<"X","y","z">>, <<"u","t","i","l","i","z","e","d">>, <<>>}

Joiners == {<<"a","n","d">>, <<"B","u","t">>, <<"B","E","C","A","U","S","E">>, <<"b","a","n","d">>, <<>>}

SplitSentencesIn ==
  {Join(SelectSeq(Repeat(<<"A">>, n1) \o <<j1>> \o Repeat(<<"b">>, n2) \o <<j2>>
                    \o Repeat(<<"c",".">>, n3),
                  LAMBDA w : w # <<>>), sep) :
     n1 \in 0..MaxRun, n2 \in 0..MaxRun, n3 \in 0..MaxRun,
     j1 \in Joiners, j2 \in Joiners, sep \in {<<" ">>, <<" "," ">>}}

RejoinChunks ==
  {<<"h","e","l","l","o"," ","w","o","r","l","d">>, <<" ","h","i">>, <<"o","k","!">>, <<>>, <<" ">>, <<"a"," ">>, <<"b","?"," ">>, <<"\n","\t","S","e","e"," ","i","t",".">>, <<"7"," ","u","p">>}

RunPieces ==
  {<<"G","o"," ","H","o","m","e",".">>, <<" ","w","e"," ","U","t","i","l","i","z","e"," ","i","t","!">>, <<" ","s","e","e"," ","(","a"," ","b",")"," ","m","e","?">>, <<" ","x"," "," ","y",".">>, <<"\n">>, <<" ","n","o"," ","e","n","d">>,
   <<" ","a"," ","a"," ","a"," ","a"," ","a"," ","a"," ","a"," ","a","n","d"," ","b"," ","b"," ","b"," ","b"," ","b"," ","b"," ","b"," ","b",".">>}

(***************************************************************************)
(* Calls                                                                   *)
(***************************************************************************)
NoRun ==
  progressFn_ = FALSE /\ sentences = <<>> /\ i = 0 /\ result = <<>> /\ calls = <<>>

runVars == <<progressFn_, sentences, i, result, calls>>

\* ---- TextAnalyzer::countSyllables ----
InitSyllables ==
  /\ pc = "countSyllables" /\ arg \in SyllableWords
  /\ lvl_ = "A1" /\ ret = "none" /\ NoRun

CountSyllables ==
  /\ pc = "countSyllables"
  /\ ret' = countSyllables(arg)
  /\ pc' = "done"
  /\ UNCHANGED <<arg, lvl_, runVars>>

SpecSyllables == InitSyllables /\ [][CountSyllables]_vars

\* ---- TextAnalyzer::analyze ----
InitAnalyze ==
  /\ \/ pc = "analyze" /\ arg \in AnalyzeTexts
     \/ pc = "estimate" /\ arg \in Scores
  /\ lvl_ = "A1" /\ ret = "none" /\ NoRun

Analyze ==
  /\ pc = "analyze"
  /\ ret' = analyze(arg)
  /\ pc' = "analyzed"
  /\ UNCHANGED <<arg, lvl_, runVars>>

\* the cutoffs applied to a Metrics whose fleschScore is arg
Estimate ==
  /\ pc = "estimate"
  /\ ret' = [Metrics0 EXCEPT !.fleschScore = arg, !.cefrEstimate = cefrEstimate(arg)]
  /\ pc' = "estimated"
  /\ UNCHANGED <<arg, lvl_, runVars>>

NextAnalyze == Analyze \/ Estimate

SpecAnalyze == InitAnalyze /\ [][NextAnalyze]_vars

\* ---- Vocabulary ----
InitVocab ==
  /\ pc = "isSimple" /\ arg \in VocabWords /\ lvl_ \in CEFRLevel
  /\ ret = "none" /\ NoRun

IsSimple ==
  /\ pc = "isSimple"
  /\ ret' = [simple |-> isSimple(lvl_, arg)]
  /\ pc' = "getSimplerWord"
  /\ UNCHANGED <<arg, lvl_, runVars>>

GetSimplerWord ==
  /\ pc = "getSimplerWord"
  /\ ret' = [simple |-> ret.simple, simpler |-> getSimplerWord(lvl_, arg)]
  /\ pc' = "done"
  /\ UNCHANGED <<arg, lvl_, runVars>>

NextVocab == IsSimple \/ GetSimplerWord

SpecVocab == InitVocab /\ [][NextVocab]_vars

\* ---- SentenceRewriter::trySplit ----
InitSplit ==
  /\ pc = "trySplit" /\ arg \in SplitSentencesIn /\ lvl_ \in CEFRLevel
  /\ ret = "none" /\ NoRun

TrySplit ==
  /\ pc = "trySplit"
  /\ ret' = trySplit(lvl_, arg)
  /\ pc' = "done"
  /\ UNCHANGED <<arg, lvl_, runVars>>

SpecSplit == InitSplit /\ [][TrySplit]_vars

\* ---- Simplifier::rejoin ----
InitRejoin ==
  /\ pc = "rejoin" /\ arg \in UNION {[1..m -> RejoinChunks] : m \in 0..MaxChunks}
  /\ lvl_ = "A1" /\ ret = "none" /\ NoRun

Rejoin ==
  /\ pc = "rejoin"
  /\ ret' = rejoin(arg)
  /\ pc' = "done"
  /\ UNCHANGED <<arg, lvl_, runVars>>

SpecRejoin == InitRejoin /\ [][Rejoin]_vars

\* ---- Simplifier::run ----
InitRun ==
  /\ pc = "run" /\ arg \in TextsOf(RunPieces, MaxSentences)
  /\ lvl_ \in CEFRLevel /\ progressFn_ \in BOOLEAN
  /\ ret = "none" /\ sentences = <<>> /\ i = 0 /\ result = <<>> /\ calls = <<>>

\* auto sentences = splitSentences(text); int total = sentences.size();
RunSplit ==
  /\ pc = "run"
  /\ sentences' = splitSentences(arg)
  /\ i' = 0
  /\ result' = <<>>
  /\ pc' = "loop"
  /\ UNCHANGED <<arg, lvl_, ret, progressFn_, calls>>

\* parts = rewriter_.rewrite(sentences[i]); result.push_back(p) for each part
RunRewrite ==
  /\ pc = "loop" /\ i < Len(sentences)
  /\ result' = result \o rewrite(lvl_, sentences[i + 1])
  /\ pc' = "progress"
  /\ UNCHANGED <<arg, lvl_, ret, progressFn_, sentences, i, calls>>

\* if (progressFn_) progressFn_(i + 1, total); then i++
RunProgress ==
  /\ pc = "progress"
  /\ calls' = IF progressFn_
              THEN Append(calls, progressArgs(i, Len(sentences)))
              ELSE calls
  /\ i' = i + 1
  /\ pc' = "loop"
  /\ UNCHANGED <<arg, lvl_, ret, progressFn_, sentences, result>>

\* the loop is over: build and return the SimplifiedArticle
RunReturn ==
  /\ pc = "loop" /\ ~(i < Len(sentences))
  /\ ret' = [original |-> arg, simplified |-> rejoin(result), level |-> lvl_]
  /\ pc' = "done"
  /\ UNCHANGED <<arg, lvl_, progressFn_, sentences, i, result, calls>>

NextRun == RunSplit \/ RunRewrite \/ RunProgress \/ RunReturn

SpecRun == InitRun /\ [][NextRun]_vars

(***************************************************************************)
(* Properties                                                              *)
(***************************************************************************)
HasTerminator(t) == \E x \in DOMAIN t : isTerminator(t[x])

HasLetter(t) == \E x \in DOMAIN t : isalpha(t[x])

\* no letter of t lies in a sentence, that is, before some terminator
NoWordInSentences(t) ==
  \A x \in DOMAIN t : isalpha(t[x]) => ~\E y \in x..Len(t) : isTerminator(t[y])

LastOf(q) == q[Len(q)]

\* C5: countSyllables returns an integer >= 1 for every word, all-consonant
\* words and words whose only vowel group the silent-e rule cancels included
\* ("the" gives 1), and countSyllables("banana") = 3.
C5_SyllablesAtLeastOne ==
  pc = "done" =>
    /\ ret \in Int
    /\ ret >= 1
    /\ (arg = <<"t","h","e">> => ret = 1)
    /\ (arg = <<"b","a","n","a","n","a">> => ret = 3)

C5_Witness == pc = "done" /\ arg = <<"t","h","e">> /\ ret = 1

\* C6: for a text with none of '.', '!', '?', analyze returns the zero-valued
\* metrics (both averages 0, fleschScore 0, level 0); no returned fraction has
\* a zero divisor; and when the sentences hold no alphabetic word,
\* avgSyllablesPerWord is 0.
C6_ZeroMetrics ==
  pc = "analyzed" =>
    /\ ret.avgWordsPerSentence[2] > 0
    /\ ret.avgSyllablesPerWord[2] > 0
    /\ ret.fleschScore[2] > 0
    /\ (~HasTerminator(arg) =>
          /\ ret.avgWordsPerSentence[1] = 0
          /\ ret.avgSyllablesPerWord[1] = 0
          /\ ret.fleschScore[1] = 0
          /\ ret.cefrEstimate = 0)
    /\ (NoWordInSentences(arg) => ret.avgSyllablesPerWord[1] = 0)

C6_Witness ==
  /\ pc = "analyzed" /\ ~HasTerminator(arg) /\ HasLetter(arg)
  /\ ret.cefrEstimate = 0 /\ ret.fleschScore[1] = 0

\* C7: the level is in 0..6; once a sentence is found it is in 1..6 and is the
\* first match of the cutoffs on fleschScore: >=80 is 1, >=65 is 2, >=50 is 3,
\* >=40 is 4, >=25 is 5, else 6; exactly 80 is level 1, 79.999 is level 2.
C7_LevelTable ==
  pc \in {"analyzed", "estimated"} =>
    LET f     == ret.fleschScore
        lev   == ret.cefrEstimate
        found == pc = "estimated" \/ HasTerminator(arg)
    IN  /\ lev \in 0..6
        /\ found =>
             /\ lev \in 1..6
             /\ (lev = 1) <=> (f[1] >= 80 * f[2])
             /\ (lev = 2) <=> (f[1] < 80 * f[2] /\ f[1] >= 65 * f[2])
             /\ (lev = 3) <=> (f[1] < 65 * f[2] /\ f[1] >= 50 * f[2])
             /\ (lev = 4) <=> (f[1] < 50 * f[2] /\ f[1] >= 40 * f[2])
             /\ (lev = 5) <=> (f[1] < 40 * f[2] /\ f[1] >= 25 * f[2])
             /\ (lev = 6) <=> (f[1] < 25 * f[2])
        /\ (f = <<80000, 1000>> => lev = 1)
        /\ (f = <<79999, 1000>> => lev = 2)

C7_Witness ==
  pc = "estimated" /\ arg = <<80000, 1000>> /\ ret.cefrEstimate = 1

\* C8: getSimplerWord returns the table's replacement when the lowercased word
\* is a key ("UTILIZE" gives "use" at A1) and the word itself, casing kept,
\* otherwise; isSimple holds exactly when getSimplerWord returns the word
\* unchanged; every A1 key maps to the same replacement in the A2 table.
C8_Vocabulary ==
  /\ \A key \in DOMAIN wordMap_("A1") :
       key \in DOMAIN wordMap_("A2") /\ wordMap_("A2")[key] = wordMap_("A1")[key]
  /\ pc = "done" =>
       /\ (tolower(arg) \in DOMAIN wordMap_(lvl_) =>
             ret.simpler = wordMap_(lvl_)[tolower(arg)])
       /\ (tolower(arg) \notin DOMAIN wordMap_(lvl_) => ret.simpler = arg)
       /\ (ret.simple <=> ret.simpler = arg)
       /\ (arg = <<"U","T","I","L","I","Z","E">> /\ lvl_ = "A1" => ret.simpler = <<"u","s","e">>)

C8_Witness ==
  pc = "done" /\ arg = <<"U","T","I","L","I","Z","E">> /\ lvl_ = "A1" /\ ret.simpler = <<"u","s","e">> /\ ~ret.simple

\* the chunk neither starts with white space nor ends in '.', '!' or '?'
PlainChunk(c) ==
  /\ (c # <<>> => ~isspace(c[1]))
  /\ (c # <<>> => ~isTerminator(LastOf(c)))

\* C3 as stated: rejoin of one chunk with no leading white space and no final
\* terminator is exactly the chunk, first character uppercased, plus one period.
C3_AsStated ==
  (pc = "done" /\ Len(arg) = 1 /\ PlainChunk(arg[1])) =>
    ret = capitalize(arg[1]) \o <<".">>

\* C3 amended: rejoin of one non-empty chunk with no leading white space and
\* no final terminator is the chunk, first character uppercased, plus one
\* period and one trailing space: rejoin(["hello world"]) = "Hello world. ".
C3_RejoinOneChunk ==
  (pc = "done" /\ Len(arg) = 1 /\ PlainChunk(arg[1]) /\ arg[1] # <<>>) =>
    /\ ret = capitalize(arg[1]) \o <<".", " ">>
    /\ (arg[1] = <<"h","e","l","l","o"," ","w","o","r","l","d">> => ret = <<"H","e","l","l","o"," ","w","o","r","l","d","."," ">>)

C3_Witness == pc = "done" /\ arg = <<<<"h","e","l","l","o"," ","w","o","r","l","d">>>> /\ ret = <<"H","e","l","l","o"," ","w","o","r","l","d","."," ">>

\* ---- trySplit ----
RefConjunction(tok) == tolower(tok) \in {<<"a","n","d">>, <<"b","u","t">>, <<"b","e","c","a","u","s","e">>}

\* the last token at or before p after which the reference closes a chunk
RECURSIVE RefLastClose(_, _, _)
RefLastClose(toks, half, p) ==
  IF p = 0 THEN 0
  ELSE LET prev == RefLastClose(toks, half, p - 1)
       IN  IF RefConjunction(toks[p]) /\ p - prev >= half THEN p ELSE prev

\* where the reference's chunks end: after each closing token, and at the end
RefEnds(toks, half) ==
  {p \in 1..Len(toks) : RefLastClose(toks, half, p) = p} \cup {Len(toks)}

SixAndSix == Repeat(<<"A">>, 6) \o <<<<"a","n","d">>>> \o Repeat(<<"b">>, 6)

\* C4: at most limit tokens (10 at A1, 15 at A2): the sentence itself, alone;
\* otherwise a chunk ends exactly after each token that lowercased is "and",
\* "but" or "because" with at least limit/2 tokens since the last close, and
\* the rest is the last chunk; six tokens, "and", six tokens at A1 give two
\* chunks, the first ending in "and".
C4_TrySplitReference ==
  pc = "done" =>
    LET toks   == istringstream(arg)
        limit  == IF lvl_ = "A1" THEN 10 ELSE 15
        ends   == RefEnds(toks, limit \div 2)
        nth(m) == CHOOSE e \in ends : Cardinality({d \in ends : d <= e}) = m
        from(m) == IF m = 1 THEN 1 ELSE nth(m - 1) + 1
    IN  /\ Len(toks) <= limit => ret = <<arg>>
        /\ Len(toks) > limit =>
             /\ Len(ret) = Cardinality(ends)
             /\ \A m \in 1..Cardinality(ends) :
                  m <= Len(ret) => istringstream(ret[m]) = SubSeq(toks, from(m), nth(m))
        /\ (toks = SixAndSix /\ lvl_ = "A1") =>
             Len(ret) = 2 /\ LastOf(istringstream(ret[1])) = <<"a","n","d">>

C4_Witness ==
  pc = "done" /\ lvl_ = "A1" /\ istringstream(arg) = SixAndSix /\ Len(ret) = 2

RECURSIVE TokensOfChunks(_)
TokensOfChunks(chunks) ==
  IF chunks = <<>> THEN <<>>
  ELSE istringstream(Head(chunks)) \o TokensOfChunks(Tail(chunks))

\* C10: the tokens of the returned chunks, in chunk order, are the tokens of the
\* sentence; no chunk of an over-limit sentence is empty.
C10_TokensPreserved ==
  pc = "done" =>
    /\ TokensOfChunks(ret) = istringstream(arg)
    /\ Len(istringstream(arg)) > (IF lvl_ = "A1" THEN 10 ELSE 15) =>
         \A m \in DOMAIN ret : ret[m] # <<>> /\ istringstream(ret[m]) # <<>>

C10_Witness ==
  /\ pc = "done" /\ lvl_ = "A1" /\ Len(istringstream(arg)) > 10 /\ Len(ret) = 2
  /\ RefConjunction(LastOf(istringstream(arg)))

\* ---- run ----
\* the chunks of the first n sentences, in order
RECURSIVE ChunksOf(_, _, _)
ChunksOf(lvl, sents, n) ==
  IF n = 0 THEN <<>> ELSE ChunksOf(lvl, sents, n - 1) \o rewrite(lvl, sents[n])

\* C1: with a callback set, the k-th call carries (k, N), N the number of
\* sentences splitSentences returns; it comes when exactly the chunks of the
\* first k sentences are appended; the run ends after exactly N calls; with no
\* callback, or N = 0, there is no call.
C1_ProgressPerSentence ==
  LET src == splitSentences(arg)
  IN  /\ ~progressFn_ => calls = <<>>
      /\ progressFn_ =>
           /\ \A k \in 1..Len(calls) : calls[k] = <<k, Len(src)>>
           /\ Len(calls) <= Len(src)
           /\ pc = "done" => Len(calls) = Len(src)
           /\ pc \in {"loop", "done"} => result = ChunksOf(lvl_, src, Len(calls))
           /\ pc = "progress" => result = ChunksOf(lvl_, src, Len(calls) + 1)

C1_Witness ==
  pc = "done" /\ progressFn_ /\ Len(calls) = 2 /\ Len(result) > 2

\* the token, its trailing punctuation dropped and lowercased, is an A1 key
IsHardWord(tok) ==
  tolower(SubSeq(tok, 1, Len(tok) - trailingPunct(tok))) \in DOMAIN loadA1

AlreadySimple(text) ==
  \A x \in DOMAIN splitSentences(text) :
    LET toks == istringstream(splitSentences(text)[x])
    IN  Len(toks) <= 10 /\ \A y \in DOMAIN toks : ~IsHardWord(toks[y])

HasParenSpan(s) == \E a \in DOMAIN s : \E b \in DOMAIN s : a < b /\ s[a] = "(" /\ s[b] = ")"

\* after its leading spaces, tabs and newlines, s is its words, single-spaced
SingleSpaced(s) ==
  LET start == findFirstNotBlank(s, 1)
  IN  start # 0 /\ SubSeq(s, start, Len(s)) = Join(istringstream(s), <<" ">>)

Tidy(text) ==
  \A x \in DOMAIN splitSentences(text) :
    ~HasParenSpan(splitSentences(text)[x]) /\ SingleSpaced(splitSentences(text)[x])

\* C2 as stated: at A1, with no A1 key among the words and no sentence over 10
\* words, simplified = rejoin(splitSentences(text)).
C2_AsStated ==
  (pc = "done" /\ lvl_ = "A1" /\ AlreadySimple(arg)) =>
    ret.simplified = rejoin(splitSentences(arg))

\* C2 amended: the same, for texts whose sentences also hold no "(...)" span
\* and, after their leading spaces, tabs and newlines, are their words
\* separated by single spaces.
C2_RoundTrip ==
  (pc = "done" /\ lvl_ = "A1" /\ AlreadySimple(arg) /\ Tidy(arg)) =>
    ret.simplified = rejoin(splitSentences(arg))

C2_Witness ==
  /\ pc = "done" /\ lvl_ = "A1" /\ AlreadySimple(arg) /\ Tidy(arg)
  /\ Len(sentences) = 2 /\ ret.simplified # <<>>

CountTerminators(s) == Cardinality({x \in DOMAIN s : isTerminator(s[x])})

\* the terminators the chunks hold, plus one period for each chunk whose last
\* word does not end in one
RECURSIVE ExpectedTerminators(_)
ExpectedTerminators(chunks) ==
  IF chunks = <<>> THEN 0
  ELSE LET toks == istringstream(Head(chunks))
       IN  CountTerminators(Head(chunks))
             + (IF toks # <<>> /\ ~isTerminator(LastOf(LastOf(toks))) THEN 1 ELSE 0)
             + ExpectedTerminators(Tail(chunks))

\* C9: in the simplified text a period is added only to a chunk whose last word
\* does not end in '.', '!' or '?': the last chunk of a split sentence keeps its
\* single terminator.
C9_NoExtraPeriod ==
  pc = "done" => CountTerminators(ret.simplified) = ExpectedTerminators(result)

====
